---------------------------- MODULE Spec2Model ----------------------------
(***************************************************************************)
(* Persona-switching chatbot: the /chat pipeline of backend.py             *)
(* (initialize_chat, validate_user, handle_persona, execute_chat) and the  *)
(* PostgreSQL tables of database.py (users, conversations, professions).   *)
(*                                                                         *)
(* Every DatabaseManager method opens, commits and closes a connection of  *)
(* its own, so a database call is one atomic step; a request is a sequence *)
(* of such steps and of oracle (LLM) calls.  Requests of several server    *)
(* processes sharing the database interleave between those steps.          *)
(*                                                                         *)
(* Text is a tuple of characters, so that str.strip() is computed and not  *)
(* assumed; a word that is never taken apart is one element.               *)
(***************************************************************************)
EXTENDS Integers, Sequences, FiniteSets, TLC

\* ------------------------------------------------------------------ bounds
\* Number of requests (POST /chat, DELETE /user, GET /chat_history,
\* GET /personas) the clients send in a run.
MaxRequests == 2
\* Number of database calls of a run that find the database unreachable.
MaxOutages == 1
\* Longest thread the database holds before the run (SpecWindow only).
MaxTurns == 12

\* --------------------------------------------------------------- constants
\* conversation_history[-10:]
ContextCap == 10

Requests == 1..MaxRequests
UserIds == {"u1", "u2"}

\* persona_name values a client sends; <<>> is the empty string.
PersonaNames == {<<>>, <<"I">>, <<"i">>}
\* profession_name values the classifier writes into its JSON object.
Candidates == {<<>>, <<" ">>, <<"i", " ">>}
\* What the classification oracle does: llm.invoke raises; its content is not
\* JSON; is JSON but no object (a list, a number); is a JSON object.
ClassifierKinds == {"raise", "not_json", "not_object", "object"}
\* Raw content of the synthesis oracle.
SynthContents == {<<>>, <<" ">>, <<" ", "q">>}

GENERAL_EXPERT == <<"general_expert">>

VARIABLES
    users,          \* table users: user_id -> number of rows with that key
    conversations,  \* table conversations: rows in timestamp (insertion) order
    professions,    \* table professions: set of rows
    req,            \* per request: the ChatState, the position in the pipeline,
                    \* and the HTTP result
    outages         \* database calls that found the database unreachable

vars == <<users, conversations, professions, req, outages>>

\* ------------------------------------------------------------ text helpers
IsSpace(c) == c = " "

RECURSIVE LStrip(_)
LStrip(s) == IF s # <<>> /\ IsSpace(Head(s)) THEN LStrip(Tail(s)) ELSE s

RECURSIVE RStrip(_)
RStrip(s) ==
    IF s # <<>> /\ IsSpace(s[Len(s)]) THEN RStrip(SubSeq(s, 1, Len(s) - 1)) ELSE s

\* str.strip()
Strip(s) == RStrip(LStrip(s))

\* Python truthiness of a str ("x or y", "if not x")
Truthy(s) == s # <<>>
Or(a, b) == IF Truthy(a) THEN a ELSE b

\* The text of request r's message and of the reply the generation oracle
\* gives to it: opaque to the pipeline, distinct per request.
MessageOf(r) == <<"m", r>>
ReplyTo(r) == <<"a", r>>

\* ---------------------------------------------------------- database layer
\* SELECT 1 FROM users WHERE user_id = %s
\* An existence check that takes every key for a known one.
user_exists_assumed(u) == TRUE

user_exists(u) == users[u] > 0

\* create_user on a users table without its PRIMARY KEY.
create_user_without_primary_key(u) == [users EXCEPT ![u] = @ + 1]

\* INSERT INTO users: the PRIMARY KEY rejects a second row (IntegrityError,
\* caught by create_user, which then returns False).
create_user(u) ==
    IF users[u] > 0 THEN users ELSE [users EXCEPT ![u] = @ + 1]

ThreadRows(u, p) ==
    SelectSeq(conversations, LAMBDA row : row.user_id = u /\ row.persona_name = p)

\* SELECT 1 FROM conversations WHERE user_id AND persona_name LIMIT 1
persona_exists_for_user(u, p) == ThreadRows(u, p) # <<>>

\* get_persona_history without "AND persona_name = %s".
get_persona_history_of_any_persona(u, p) ==
    LET rows == SelectSeq(conversations, LAMBDA row : row.user_id = u)
    IN  [i \in 1..Len(rows) |-> [role |-> rows[i].role, message |-> rows[i].message]]

\* The same SELECT with ORDER BY timestamp DESC.
get_persona_history_newest_first(u, p) ==
    LET rows == ThreadRows(u, p)
        n == Len(rows)
    IN  [i \in 1..n |-> [role |-> rows[n + 1 - i].role,
                         message |-> rows[n + 1 - i].message]]

\* SELECT role, message, timestamp ... ORDER BY timestamp ASC
get_persona_history(u, p) ==
    LET rows == ThreadRows(u, p)
    IN  [i \in 1..Len(rows) |-> [role |-> rows[i].role, message |-> rows[i].message]]

\* SELECT prompt FROM professions ...; None is rendered as the empty text,
\* which the only caller treats alike ("if existing").
get_profession_prompt(u, p) ==
    LET found == {row \in professions : row.user_id = u /\ row.profession_name = p}
    IN  IF found = {} THEN <<>> ELSE (CHOOSE row \in found : TRUE).prompt

\* A professions table keyed by the profession name alone.
save_profession_prompt_shared(u, p, prompt) ==
    IF ~user_exists(u) THEN professions
    ELSE {row \in professions : row.profession_name # p}
            \cup {[user_id |-> u, profession_name |-> p, prompt |-> prompt]}

\* INSERT INTO professions ... ON CONFLICT (user_id, profession_name)
\* DO UPDATE SET prompt = EXCLUDED.prompt.  The FOREIGN KEY rejects a row of
\* an unknown user (the exception is caught and False returned).
save_profession_prompt(u, p, prompt) ==
    IF ~user_exists(u) THEN professions
    ELSE {row \in professions : ~(row.user_id = u /\ row.profession_name = p)}
            \cup {[user_id |-> u, profession_name |-> p, prompt |-> prompt]}

\* A conversations table without the FOREIGN KEY on user_id.
save_message_without_foreign_key(u, p, role, message) ==
    Append(conversations,
           [user_id |-> u, persona_name |-> p, role |-> role, message |-> message])

\* A write that keeps only the latest row of a thread.
save_message_keep_latest(u, p, role, message) ==
    IF ~user_exists(u) THEN conversations
    ELSE Append(SelectSeq(conversations,
                          LAMBDA row : ~(row.user_id = u /\ row.persona_name = p)),
                [user_id |-> u, persona_name |-> p, role |-> role, message |-> message])

\* A write that keeps one row per (user_id, persona_name, role).
save_message_upsert(u, p, role, message) ==
    IF ~user_exists(u) THEN conversations
    ELSE Append(SelectSeq(conversations,
                          LAMBDA row : ~(/\ row.user_id = u
                                         /\ row.persona_name = p
                                         /\ row.role = role)),
                [user_id |-> u, persona_name |-> p, role |-> role, message |-> message])

\* INSERT INTO conversations; the FOREIGN KEY rejects a row of an unknown user.
save_message(u, p, role, message) ==
    IF ~user_exists(u) THEN conversations
    ELSE Append(conversations,
                [user_id |-> u, persona_name |-> p, role |-> role, message |-> message])


\* DELETE FROM users WHERE user_id = %s, with ON DELETE CASCADE on both
\* dependent tables.
delete_users_row(u) == [users EXCEPT ![u] = 0]
\* A conversations table whose foreign key lacks ON DELETE CASCADE.
delete_conversations_without_cascade(u) == conversations
delete_cascade_conversations(u) ==
    SelectSeq(conversations, LAMBDA row : row.user_id # u)
delete_cascade_professions(u) == {row \in professions : row.user_id # u}

\* ------------------------------------------------------------ ChatState
NoDetection ==
    [kind |-> "none", current_profession |-> <<>>, candidate |-> <<>>,
     should_switch |-> FALSE, profession_name |-> <<>>]

\* A request that has not arrived yet.
IdleReq ==
    [op |-> "none", pc |-> "idle", user_id |-> "", message |-> <<>>,
     current_persona |-> <<>>, profession_name |-> <<>>,
     conversation_history |-> <<>>, profession_prompt |-> <<>>,
     messages |-> <<>>, assistant_message |-> <<>>, response |-> <<>>,
     action |-> "", detection |-> NoDetection,
     history |-> <<>>,        \* GET /chat_history: persona_name -> turns
     personas |-> {},         \* GET /chat_history, GET /personas
     connection |-> "closed", \* the connection of a `with get_connection()`
     status |-> 0, error |-> "",
     db_error |-> FALSE,      \* met an unreachable database (OperationalError)
     synthesized |-> FALSE]   \* called the synthesis oracle

\* route_next: the node the graph runs after a node that left `action`.
\* A router whose mapping sends "execute_chat" back to validate_user.
route_next_back(action) ==
    IF action \in {"validate_user", "handle_persona"} THEN action
    ELSE IF action = "execute_chat" THEN "validate_user"
    ELSE "complete"

route_next(action) ==
    IF action \in {"validate_user", "handle_persona", "execute_chat"}
    THEN action ELSE "complete"

Set(r, rec) == req' = [req EXCEPT ![r] = rec]

\* psycopg2.connect either succeeds or raises OperationalError.
Reachability == IF outages < MaxOutages THEN BOOLEAN ELSE {TRUE}
Connect(reachable) == outages' = IF reachable THEN outages ELSE outages + 1

\* An exception that leaves graph.invoke or an endpoint: the answer is HTTP
\* 500 with detail = str(e); the working state is dropped, what the request
\* did with the oracles stays on record.
Raise(r, e, db) ==
    Set(r, [IdleReq EXCEPT !.op = req[r].op, !.pc = "done",
               !.user_id = req[r].user_id, !.message = req[r].message,
               !.action = req[r].action,
               !.synthesized = req[r].synthesized,
               !.messages = req[r].messages,
               !.assistant_message = req[r].assistant_message,
               !.status = 500, !.error = e,
               !.db_error = req[r].db_error \/ db])

\* Requests arrive in the order of their numbers.
Arrives(r) ==
    /\ req[r].pc = "idle"
    /\ IF r = 1 THEN TRUE ELSE req[r - 1].pc # "idle"

TypeOK ==
    /\ users \in [UserIds -> Nat]
    /\ \A i \in 1..Len(conversations) :
          /\ conversations[i].user_id \in UserIds
          /\ conversations[i].role \in {"user", "assistant"}
    /\ \A row \in professions : row.user_id \in UserIds
    /\ \A r \in Requests : req[r].status \in {0, 200, 404, 500}

Init ==
    /\ users = [u \in UserIds |-> 0]
    /\ conversations = <<>>
    /\ professions = {}
    /\ req = [r \in Requests |-> IdleReq]
    /\ outages = 0

\* ---------------------------------------------------------- POST /chat
\* chat(): builds initial_state from the ChatRequest and enters the graph.
chat(r) ==
    /\ Arrives(r)
    /\ \E u \in UserIds, persona_name \in PersonaNames :
          Set(r, [IdleReq EXCEPT !.op = "chat", !.pc = "initialize_chat",
                     !.user_id = u, !.message = MessageOf(r),
                     !.current_persona = persona_name,
                     !.action = "initialize"])
    /\ UNCHANGED <<users, conversations, professions, outages>>

\* Node 1 with the default left out.
initialize_chat_without_default(r) ==
    /\ req[r].pc = "initialize_chat"
    /\ Set(r, [req[r] EXCEPT !.action = "validate_user",
                   !.pc = route_next("validate_user")])
    /\ UNCHANGED <<users, conversations, professions, outages>>

\* Node 1.
initialize_chat(r) ==
    /\ req[r].pc = "initialize_chat"
    /\ LET current_persona ==
              IF ~Truthy(req[r].current_persona) THEN GENERAL_EXPERT
              ELSE req[r].current_persona
       IN  Set(r, [req[r] EXCEPT !.current_persona = current_persona,
                      !.action = "validate_user",
                      !.pc = route_next("validate_user")])
    /\ UNCHANGED <<users, conversations, professions, outages>>

\* Node 2, db_manager.user_exists.
validate_user(r) ==
    /\ req[r].pc = "validate_user"
    /\ \E reachable \in Reachability :
          /\ Connect(reachable)
          /\ IF ~reachable THEN Raise(r, "OperationalError", TRUE)
             ELSE IF ~user_exists(req[r].user_id)
                  THEN Set(r, [req[r] EXCEPT !.pc = "create_user"])
                  ELSE Set(r, [req[r] EXCEPT !.action = "handle_persona",
                                  !.pc = route_next("handle_persona")])
    /\ UNCHANGED <<users, conversations, professions>>

\* Node 2 with a create_user that lets the IntegrityError of a duplicate
\* INSERT out.
validate_user_create_raising(r) ==
    /\ req[r].pc = "create_user"
    /\ \E reachable \in Reachability :
          /\ Connect(reachable)
          /\ users' = IF reachable THEN create_user(req[r].user_id) ELSE users
          /\ IF reachable /\ user_exists(req[r].user_id)
             THEN Raise(r, "IntegrityError", FALSE)
             ELSE Set(r, [req[r] EXCEPT !.conversation_history = <<>>,
                             !.action = "handle_persona",
                             !.pc = route_next("handle_persona"),
                             !.db_error = @ \/ ~reachable])
    /\ UNCHANGED <<conversations, professions>>

\* Node 2, db_manager.create_user: every exception is caught there.
validate_user_create(r) ==
    /\ req[r].pc = "create_user"
    /\ \E reachable \in Reachability :
          /\ Connect(reachable)
          /\ users' = IF reachable THEN create_user(req[r].user_id) ELSE users
          /\ Set(r, [req[r] EXCEPT !.conversation_history = <<>>,
                        !.action = "handle_persona",
                        !.pc = route_next("handle_persona"),
                        !.db_error = @ \/ ~reachable])
    /\ UNCHANGED <<conversations, professions>>

\* A classifier call that adopts the candidate only when should_switch is set.
detect_profession_only_on_switch(kind, should_switch, candidate, current_profession) ==
    IF kind \in {"raise", "not_object"}
    THEN [raised |-> IF kind = "raise" THEN "OracleError" ELSE "AttributeError",
          should_switch |-> FALSE, profession_name |-> <<>>]
    ELSE [raised |-> "", should_switch |-> should_switch,
          profession_name |->
              IF kind = "object" /\ should_switch
              THEN Or(Strip(candidate), current_profession)
              ELSE current_profession]

\* The classifier call: [raised, should_switch, profession_name].
detect_profession_from_message(kind, should_switch, candidate, current_profession) ==
    CASE kind = "raise" ->
            [raised |-> "OracleError", should_switch |-> FALSE,
             profession_name |-> <<>>]
      [] kind = "not_json" ->
            [raised |-> "", should_switch |-> FALSE,
             profession_name |-> current_profession]
      [] kind = "not_object" ->
            [raised |-> "AttributeError", should_switch |-> FALSE,
             profession_name |-> <<>>]
      [] OTHER ->
            [raised |-> "", should_switch |-> should_switch,
             profession_name |-> Or(Strip(candidate), current_profession)]

\* handle_persona, line 175: the label the thread is keyed by.
ResolveProfession(detected, current_profession) == Or(detected, current_profession)

\* Node 3 without the assignment to state["current_persona"].
handle_persona_keeping_current(r) ==
    /\ req[r].pc = "handle_persona"
    /\ \E kind \in ClassifierKinds, sw \in BOOLEAN, cand \in Candidates :
          LET current_profession == Or(req[r].current_persona, GENERAL_EXPERT)
              should_switch == kind = "object" /\ sw
              candidate == IF kind = "object" THEN cand ELSE <<>>
              detection == detect_profession_from_message(
                               kind, should_switch, candidate, current_profession)
              profession_name ==
                  ResolveProfession(detection.profession_name, current_profession)
          IN  IF detection.raised # "" THEN Raise(r, detection.raised, FALSE)
              ELSE Set(r, [req[r] EXCEPT
                              !.profession_name = profession_name,
                              !.detection =
                                  [kind |-> kind,
                                   current_profession |-> current_profession,
                                   candidate |-> candidate,
                                   should_switch |-> detection.should_switch,
                                   profession_name |-> detection.profession_name],
                              !.pc = "persona_exists"])
    /\ UNCHANGED <<users, conversations, professions, outages>>

\* Node 3 up to the database: the classifier and the state it leaves.
handle_persona(r) ==
    /\ req[r].pc = "handle_persona"
    /\ \E kind \in ClassifierKinds, sw \in BOOLEAN, cand \in Candidates :
          LET current_profession == Or(req[r].current_persona, GENERAL_EXPERT)
              should_switch == kind = "object" /\ sw
              candidate == IF kind = "object" THEN cand ELSE <<>>
              detection == detect_profession_from_message(
                               kind, should_switch, candidate, current_profession)
              profession_name ==
                  ResolveProfession(detection.profession_name, current_profession)
          IN  IF detection.raised # "" THEN Raise(r, detection.raised, FALSE)
              ELSE Set(r, [req[r] EXCEPT
                              !.current_persona = profession_name,
                              !.profession_name = profession_name,
                              !.detection =
                                  [kind |-> kind,
                                   current_profession |-> current_profession,
                                   candidate |-> candidate,
                                   should_switch |-> detection.should_switch,
                                   profession_name |-> detection.profession_name],
                              !.pc = "persona_exists"])
    /\ UNCHANGED <<users, conversations, professions, outages>>

\* Node 3 with a Router that opens a missing thread by a marker row.
handle_persona_exists_opening_thread(r) ==
    /\ req[r].pc = "persona_exists"
    /\ \E reachable \in Reachability :
          /\ Connect(reachable)
          /\ IF ~reachable
             THEN Raise(r, "OperationalError", TRUE) /\ UNCHANGED conversations
             ELSE IF persona_exists_for_user(req[r].user_id, req[r].profession_name)
                  THEN /\ Set(r, [req[r] EXCEPT !.detection = NoDetection,
                                     !.pc = "get_persona_history"])
                       /\ UNCHANGED conversations
                  ELSE /\ Set(r, [req[r] EXCEPT !.detection = NoDetection,
                                     !.conversation_history = <<>>,
                                     !.action = "execute_chat",
                                     !.pc = route_next("execute_chat")])
                       /\ conversations' =
                             save_message(req[r].user_id, req[r].profession_name,
                                          "system", <<>>)
    /\ UNCHANGED <<users, professions>>

\* Node 3, db_manager.persona_exists_for_user.
handle_persona_exists(r) ==
    /\ req[r].pc = "persona_exists"
    /\ \E reachable \in Reachability :
          /\ Connect(reachable)
          /\ IF ~reachable THEN Raise(r, "OperationalError", TRUE)
             ELSE IF persona_exists_for_user(req[r].user_id, req[r].profession_name)
                  THEN Set(r, [req[r] EXCEPT !.detection = NoDetection,
                                  !.pc = "get_persona_history"])
                  ELSE Set(r, [req[r] EXCEPT !.detection = NoDetection,
                                  !.conversation_history = <<>>,
                                  !.action = "execute_chat",
                                  !.pc = route_next("execute_chat")])
    /\ UNCHANGED <<users, conversations, professions>>

\* Node 3, db_manager.get_persona_history.
handle_persona_history(r) ==
    /\ req[r].pc = "get_persona_history"
    /\ \E reachable \in Reachability :
          /\ Connect(reachable)
          /\ IF ~reachable THEN Raise(r, "OperationalError", TRUE)
             ELSE Set(r, [req[r] EXCEPT
                             !.conversation_history =
                                 get_persona_history(req[r].user_id, req[r].profession_name),
                             !.action = "execute_chat",
                             !.pc = route_next("execute_chat")])
    /\ UNCHANGED <<users, conversations, professions>>

\* ------------------------------------------------------------ Node 4
\* The fallback generic prompt of generate_profession_prompt_with_llm.
FallbackPrompt(profession_name) ==
    <<"You are an AI assistant acting as a professional ">> \o profession_name

\* The same without the "if not prompt" branch.
PromptFrom_without_fallback(content, profession_name) == Strip(content)

\* generate_profession_prompt_with_llm, after llm.invoke returned `content`.
PromptFrom(content, profession_name) ==
    Or(Strip(content), FallbackPrompt(profession_name))

\* conversation_history[:10]: the oldest turns instead of the newest.
ContextWindow_oldest(conversation_history) ==
    IF Len(conversation_history) > ContextCap
    THEN SubSeq(conversation_history, 1, ContextCap)
    ELSE conversation_history

\* conversation_history[-10:]
ContextWindow(conversation_history) ==
    IF Len(conversation_history) > ContextCap
    THEN SubSeq(conversation_history,
                Len(conversation_history) - ContextCap + 1,
                Len(conversation_history))
    ELSE conversation_history

\* The list handed to llm.invoke: SystemMessage, the window (HumanMessage for
\* role user, AIMessage for role assistant, any other role skipped), and the
\* new HumanMessage.
\* A message list with the directive put after the prior turns.
BuildMessages_directive_after_history(profession_prompt, conversation_history, message) ==
    LET window == SelectSeq(ContextWindow(conversation_history),
                            LAMBDA msg : msg.role \in {"user", "assistant"})
    IN  [i \in 1..Len(window) |->
            [role |-> window[i].role, content |-> window[i].message]]
        \o <<[role |-> "system", content |-> profession_prompt]>>
        \o <<[role |-> "user", content |-> message]>>

BuildMessages(profession_prompt, conversation_history, message) ==
    LET window == SelectSeq(ContextWindow(conversation_history),
                            LAMBDA msg : msg.role \in {"user", "assistant"})
    IN  <<[role |-> "system", content |-> profession_prompt]>>
        \o [i \in 1..Len(window) |->
               [role |-> window[i].role, content |-> window[i].message]]
        \o <<[role |-> "user", content |-> message]>>

\* f"I apologize, but I encountered an error: {str(e)}"
Apology == <<"I apologize, but I encountered an error: ", "OracleError">>

\* Node 4, get_or_create_profession_prompt up to db_manager.get_profession_prompt.
execute_chat(r) ==
    /\ req[r].pc = "execute_chat"
    /\ \E reachable \in Reachability :
          /\ Connect(reachable)
          /\ LET profession_name ==
                     Or(Or(req[r].profession_name, req[r].current_persona), GENERAL_EXPERT)
                 existing == get_profession_prompt(req[r].user_id, profession_name)
             IN  IF ~reachable THEN Raise(r, "OperationalError", TRUE)
                 ELSE IF Truthy(existing)
                      THEN Set(r, [req[r] EXCEPT !.profession_name = profession_name,
                                      !.profession_prompt = existing,
                                      !.pc = "invoke"])
                      ELSE Set(r, [req[r] EXCEPT !.profession_name = profession_name,
                                      !.pc = "generate_prompt"])
    /\ UNCHANGED <<users, conversations, professions>>

\* Node 4, the synthesis oracle; an exception of llm.invoke is caught nowhere
\* below chat().
generate_profession_prompt_with_llm(r) ==
    /\ req[r].pc = "generate_prompt"
    /\ \/ Raise(r, "OracleError", FALSE)
       \/ \E content \in SynthContents :
             Set(r, [req[r] EXCEPT
                        !.profession_prompt = PromptFrom(content, req[r].profession_name),
                        !.synthesized = TRUE,
                        !.pc = "save_prompt"])
    /\ UNCHANGED <<users, conversations, professions, outages>>

\* Node 4, db_manager.save_profession_prompt: every exception is caught there.
get_or_create_profession_prompt_save(r) ==
    /\ req[r].pc = "save_prompt"
    /\ \E reachable \in Reachability :
          /\ Connect(reachable)
          /\ professions' =
                IF reachable
                THEN save_profession_prompt(req[r].user_id, req[r].profession_name,
                                            req[r].profession_prompt)
                ELSE professions
          /\ Set(r, [req[r] EXCEPT !.pc = "invoke", !.db_error = @ \/ ~reachable])
    /\ UNCHANGED <<users, conversations>>

\* Node 4, the generation oracle inside the try block.
execute_chat_invoke(r) ==
    /\ req[r].pc = "invoke"
    /\ LET messages == BuildMessages(req[r].profession_prompt,
                                     req[r].conversation_history, req[r].message)
       IN  \/ Set(r, [req[r] EXCEPT !.messages = messages,
                         !.response = Apology,
                         !.error = "OracleError",
                         !.action = "complete",
                         !.pc = route_next("complete")])
           \/ Set(r, [req[r] EXCEPT !.messages = messages,
                         !.assistant_message = ReplyTo(r),
                         !.pc = "save_user"])
    /\ UNCHANGED <<users, conversations, professions, outages>>

\* Node 4 with a save_message that lets its exception out: the except clause
\* of execute_chat answers with the apology.
execute_chat_save_user_unguarded(r) ==
    /\ req[r].pc = "save_user"
    /\ \E reachable \in Reachability :
          /\ Connect(reachable)
          /\ conversations' =
                IF reachable
                THEN save_message(req[r].user_id, req[r].profession_name,
                                  "user", req[r].message)
                ELSE conversations
          /\ IF reachable
             THEN Set(r, [req[r] EXCEPT !.pc = "save_assistant"])
             ELSE Set(r, [req[r] EXCEPT !.response = Apology,
                             !.error = "OperationalError",
                             !.action = "complete",
                             !.pc = route_next("complete"),
                             !.db_error = TRUE])
    /\ UNCHANGED <<users, professions>>

\* Node 4, save_message(user_id, profession_name, "user", message).
execute_chat_save_user(r) ==
    /\ req[r].pc = "save_user"
    /\ \E reachable \in Reachability :
          /\ Connect(reachable)
          /\ conversations' =
                IF reachable
                THEN save_message(req[r].user_id, req[r].profession_name,
                                  "user", req[r].message)
                ELSE conversations
          /\ Set(r, [req[r] EXCEPT !.pc = "save_assistant",
                        !.db_error = @ \/ ~reachable])
    /\ UNCHANGED <<users, professions>>

\* Node 4, save_message(..., "assistant", assistant_message) and the end of
\* the try block.
execute_chat_save_assistant(r) ==
    /\ req[r].pc = "save_assistant"
    /\ \E reachable \in Reachability :
          /\ Connect(reachable)
          /\ conversations' =
                IF reachable
                THEN save_message(req[r].user_id, req[r].profession_name,
                                  "assistant", req[r].assistant_message)
                ELSE conversations
          /\ Set(r, [req[r] EXCEPT !.response = req[r].assistant_message,
                        !.action = "complete",
                        !.pc = route_next("complete"),
                        !.db_error = @ \/ ~reachable])
    /\ UNCHANGED <<users, professions>>

\* chat(): graph.invoke returned; ChatResponse(response, persona_name, user_id).
\* The working state is dropped with the request.
chat_return(r) ==
    /\ req[r].pc = "complete"
    /\ Set(r, [IdleReq EXCEPT !.op = "chat", !.pc = "done",
                  !.user_id = req[r].user_id, !.message = req[r].message,
                  !.current_persona = req[r].current_persona,
                  !.profession_name = req[r].profession_name,
                  !.response = req[r].response,
                  !.action = req[r].action,
                  !.status = 200, !.error = req[r].error,
                  !.db_error = req[r].db_error,
                  !.synthesized = req[r].synthesized])
    /\ UNCHANGED <<users, conversations, professions, outages>>

\* ------------------------------------------------- DELETE /user/{user_id}
\* delete_user: db_manager.delete_user_data returns False on any exception
\* and the endpoint answers 500.
delete_user(r) ==
    /\ Arrives(r)
    /\ \E u \in UserIds, reachable \in Reachability :
          /\ Connect(reachable)
          /\ IF reachable
             THEN /\ users' = delete_users_row(u)
                  /\ conversations' = delete_cascade_conversations(u)
                  /\ professions' = delete_cascade_professions(u)
                  /\ Set(r, [IdleReq EXCEPT !.op = "delete", !.pc = "done",
                                !.user_id = u, !.status = 200])
             ELSE /\ Set(r, [IdleReq EXCEPT !.op = "delete", !.pc = "done",
                                !.user_id = u, !.status = 500,
                                !.error = "Failed to delete user",
                                !.db_error = TRUE])
                  /\ UNCHANGED <<users, conversations, professions>>

\* ------------------------------------------- GET /chat_history/{user_id}
\* SELECT DISTINCT persona_name FROM conversations WHERE user_id = %s
\* (ORDER BY persona_name: the order of the list is not modelled).
get_user_personas(u) ==
    {conversations[k].persona_name :
        k \in {j \in 1..Len(conversations) : conversations[j].user_id = u}}

\* SELECT persona_name, role, message, timestamp ... WHERE user_id = %s
\* ORDER BY persona_name, timestamp ASC, grouped by persona_name.
get_all_chat_history(u) ==
    [p \in get_user_personas(u) |-> get_persona_history(u, p)]

\* HTTPException(404, "User not found"), re-raised as it is.
NotFound(r, op, u) ==
    Set(r, [IdleReq EXCEPT !.op = op, !.pc = "done", !.user_id = u,
               !.status = 404, !.error = "User not found"])

\* A database call of an endpoint that finds the database unreachable.
Unavailable(r, op, u) ==
    Set(r, [IdleReq EXCEPT !.op = op, !.pc = "done", !.user_id = u,
               !.status = 500, !.error = "OperationalError",
               !.db_error = TRUE])

\* get_chat_history: the request and db_manager.user_exists.
get_chat_history(r) ==
    /\ Arrives(r)
    /\ \E u \in UserIds, reachable \in Reachability :
          /\ Connect(reachable)
          /\ IF ~reachable THEN Unavailable(r, "history", u)
             ELSE IF ~user_exists(u) THEN NotFound(r, "history", u)
             ELSE Set(r, [IdleReq EXCEPT !.op = "history", !.user_id = u,
                             !.pc = "get_all_chat_history"])
    /\ UNCHANGED <<users, conversations, professions>>

\* get_chat_history: db_manager.get_all_chat_history.
get_chat_history_all(r) ==
    /\ req[r].pc = "get_all_chat_history"
    /\ \E reachable \in Reachability :
          /\ Connect(reachable)
          /\ IF ~reachable THEN Unavailable(r, "history", req[r].user_id)
             ELSE Set(r, [req[r] EXCEPT
                             !.history = get_all_chat_history(req[r].user_id),
                             !.pc = "get_user_personas"])
    /\ UNCHANGED <<users, conversations, professions>>

\* get_chat_history: db_manager.get_user_personas and the answer.
get_chat_history_personas(r) ==
    /\ req[r].pc = "get_user_personas"
    /\ \E reachable \in Reachability :
          /\ Connect(reachable)
          /\ IF ~reachable THEN Unavailable(r, "history", req[r].user_id)
             ELSE Set(r, [req[r] EXCEPT
                             !.personas = get_user_personas(req[r].user_id),
                             !.pc = "done", !.status = 200])
    /\ UNCHANGED <<users, conversations, professions>>

\* ----------------------------------------------- GET /personas/{user_id}
\* get_user_personas (endpoint): the request and db_manager.user_exists.
list_personas(r) ==
    /\ Arrives(r)
    /\ \E u \in UserIds, reachable \in Reachability :
          /\ Connect(reachable)
          /\ IF ~reachable THEN Unavailable(r, "personas", u)
             ELSE IF ~user_exists(u) THEN NotFound(r, "personas", u)
             ELSE Set(r, [IdleReq EXCEPT !.op = "personas", !.user_id = u,
                             !.pc = "list_personas"])
    /\ UNCHANGED <<users, conversations, professions>>

\* get_user_personas (endpoint): db_manager.get_user_personas and the answer.
list_personas_return(r) ==
    /\ req[r].pc = "list_personas"
    /\ \E reachable \in Reachability :
          /\ Connect(reachable)
          /\ IF ~reachable THEN Unavailable(r, "personas", req[r].user_id)
             ELSE Set(r, [req[r] EXCEPT
                             !.personas = get_user_personas(req[r].user_id),
                             !.pc = "done", !.status = 200])
    /\ UNCHANGED <<users, conversations, professions>>

\* ------------------------------------------------------------------ Spec
Step(r) ==
    \/ chat(r)
    \/ initialize_chat(r)
    \/ validate_user(r)
    \/ validate_user_create(r)
    \/ handle_persona(r)
    \/ handle_persona_exists(r)
    \/ handle_persona_history(r)
    \/ execute_chat(r)
    \/ generate_profession_prompt_with_llm(r)
    \/ get_or_create_profession_prompt_save(r)
    \/ execute_chat_invoke(r)
    \/ execute_chat_save_user(r)
    \/ execute_chat_save_assistant(r)
    \/ chat_return(r)
    \/ delete_user(r)
    \/ get_chat_history(r)
    \/ get_chat_history_all(r)
    \/ get_chat_history_personas(r)
    \/ list_personas(r)
    \/ list_personas_return(r)

Next == \E r \in Requests : Step(r)

Spec == Init /\ [][Next]_vars

\* ------------------------------------------- a database with a past
\* Rows that earlier requests left in the tables: turn k of thread (u, p).
StoredRow(u, p, k) ==
    [user_id |-> u, persona_name |-> p,
     role |-> IF k % 2 = 1 THEN "user" ELSE "assistant",
     message |-> <<"t", u, p, k>>]

StoredProfile(u, p) == [user_id |-> u, profession_name |-> p, prompt |-> <<"q">>]

\* The thread (u1, "i") holds n turns; a second thread of u1 and a thread of
\* u2 hold two turns each, written before and after them.
StoredConversations(n) ==
    <<StoredRow("u1", GENERAL_EXPERT, 1), StoredRow("u2", <<"i">>, 1)>>
    \o [k \in 1..n |-> StoredRow("u1", <<"i">>, k)]
    \o <<StoredRow("u1", GENERAL_EXPERT, 2), StoredRow("u2", <<"i">>, 2)>>

\* The server starts on a database that is empty (n = 0) or was filled by
\* earlier runs.
InitWindow ==
    /\ req = [r \in Requests |-> IdleReq]
    /\ outages = 0
    /\ \E n \in 0..MaxTurns :
          IF n = 0
          THEN /\ users = [u \in UserIds |-> 0]
               /\ conversations = <<>>
               /\ professions = {}
          ELSE /\ users = [u \in UserIds |-> 1]
               /\ conversations = StoredConversations(n)
               /\ professions = {StoredProfile("u1", <<"i">>),
                                 StoredProfile("u1", GENERAL_EXPERT),
                                 StoredProfile("u2", <<"i">>)}

\* One request against that database.
NextWindow == Step(1)

SpecWindow == InitWindow /\ [][NextWindow]_vars

\* graph.invoke and the endpoints run a request they accepted to its end.
SpecWindowFair == SpecWindow /\ WF_vars(NextWindow)

\* The server starts on a database earlier runs filled, and the clients send
\* MaxRequests requests.
InitStored ==
    /\ req = [r \in Requests |-> IdleReq]
    /\ outages = 0
    /\ users = [u \in UserIds |-> 1]
    /\ conversations = StoredConversations(2)
    /\ professions = {StoredProfile("u1", <<"i">>),
                      StoredProfile("u1", GENERAL_EXPERT),
                      StoredProfile("u2", <<"i">>)}

SpecStored == InitStored /\ [][Next]_vars

\* ----------------------------------- POST /chat, statement by statement
\* The calls of DatabaseManager a POST /chat makes, each a block
\* `with self.get_connection() as conn:` that is left before the method
\* returns.
DatabaseCalls ==
    {"validate_user", "create_user", "persona_exists", "get_persona_history",
     "execute_chat", "save_prompt", "save_user", "save_assistant"}

\* The calls of llm.invoke: classification, synthesis, generation.
OracleCalls == {"handle_persona", "generate_prompt", "invoke"}

\* get_connection up to its yield: psycopg2.connect.  When it raises, the
\* call ends as the one-step action of the call does for an unreachable
\* database (re-raised by the reads, swallowed by create_user and the saves).
get_connection(r) ==
    /\ req[r].pc \in DatabaseCalls
    /\ req[r].connection = "closed"
    /\ \E reachable \in Reachability :
          /\ Connect(reachable)
          /\ IF reachable
             THEN /\ Set(r, [req[r] EXCEPT !.connection = "open"])
                  /\ UNCHANGED <<users, conversations, professions>>
             ELSE \/ validate_user(r)
                  \/ validate_user_create(r)
                  \/ handle_persona_exists(r)
                  \/ handle_persona_history(r)
                  \/ execute_chat(r)
                  \/ get_or_create_profession_prompt_save(r)
                  \/ execute_chat_save_user(r)
                  \/ execute_chat_save_assistant(r)

\* The rest of a block: the statement, conn.commit() and conn.close().
Opened(r, call) == req[r].pc = call /\ req[r].connection = "open"

with_user_exists(r) ==
    /\ Opened(r, "validate_user")
    /\ IF ~user_exists(req[r].user_id)
       THEN Set(r, [req[r] EXCEPT !.pc = "create_user",
                       !.connection = "closed"])
       ELSE Set(r, [req[r] EXCEPT !.action = "handle_persona",
                       !.pc = route_next("handle_persona"),
                       !.connection = "closed"])
    /\ UNCHANGED <<users, conversations, professions, outages>>

with_create_user(r) ==
    /\ Opened(r, "create_user")
    /\ users' = create_user(req[r].user_id)
    /\ Set(r, [req[r] EXCEPT !.conversation_history = <<>>,
                   !.action = "handle_persona",
                   !.pc = route_next("handle_persona"),
                   !.connection = "closed"])
    /\ UNCHANGED <<conversations, professions, outages>>

with_persona_exists_for_user(r) ==
    /\ Opened(r, "persona_exists")
    /\ IF persona_exists_for_user(req[r].user_id, req[r].profession_name)
       THEN Set(r, [req[r] EXCEPT !.detection = NoDetection,
                       !.pc = "get_persona_history",
                       !.connection = "closed"])
       ELSE Set(r, [req[r] EXCEPT !.detection = NoDetection,
                       !.conversation_history = <<>>,
                       !.action = "execute_chat",
                       !.pc = route_next("execute_chat"),
                       !.connection = "closed"])
    /\ UNCHANGED <<users, conversations, professions, outages>>

with_get_persona_history(r) ==
    /\ Opened(r, "get_persona_history")
    /\ Set(r, [req[r] EXCEPT
                   !.conversation_history =
                       get_persona_history(req[r].user_id, req[r].profession_name),
                   !.action = "execute_chat",
                   !.pc = route_next("execute_chat"),
                   !.connection = "closed"])
    /\ UNCHANGED <<users, conversations, professions, outages>>

\* A get_profession_prompt that returns from inside its block.
with_get_profession_prompt_unclosed(r) ==
    /\ Opened(r, "execute_chat")
    /\ LET profession_name ==
               Or(Or(req[r].profession_name, req[r].current_persona), GENERAL_EXPERT)
           existing == get_profession_prompt(req[r].user_id, profession_name)
       IN  IF Truthy(existing)
           THEN Set(r, [req[r] EXCEPT !.profession_name = profession_name,
                           !.profession_prompt = existing,
                           !.pc = "invoke"])
           ELSE Set(r, [req[r] EXCEPT !.profession_name = profession_name,
                           !.pc = "generate_prompt"])
    /\ UNCHANGED <<users, conversations, professions, outages>>

with_get_profession_prompt(r) ==
    /\ Opened(r, "execute_chat")
    /\ LET profession_name ==
               Or(Or(req[r].profession_name, req[r].current_persona), GENERAL_EXPERT)
           existing == get_profession_prompt(req[r].user_id, profession_name)
       IN  IF Truthy(existing)
           THEN Set(r, [req[r] EXCEPT !.profession_name = profession_name,
                           !.profession_prompt = existing,
                           !.pc = "invoke",
                           !.connection = "closed"])
           ELSE Set(r, [req[r] EXCEPT !.profession_name = profession_name,
                           !.pc = "generate_prompt",
                           !.connection = "closed"])
    /\ UNCHANGED <<users, conversations, professions, outages>>

with_save_profession_prompt(r) ==
    /\ Opened(r, "save_prompt")
    /\ professions' =
          save_profession_prompt(req[r].user_id, req[r].profession_name,
                                 req[r].profession_prompt)
    /\ Set(r, [req[r] EXCEPT !.pc = "invoke", !.connection = "closed"])
    /\ UNCHANGED <<users, conversations, outages>>

with_save_message_user(r) ==
    /\ Opened(r, "save_user")
    /\ conversations' =
          save_message(req[r].user_id, req[r].profession_name,
                       "user", req[r].message)
    /\ Set(r, [req[r] EXCEPT !.pc = "save_assistant",
                   !.connection = "closed"])
    /\ UNCHANGED <<users, professions, outages>>

with_save_message_assistant(r) ==
    /\ Opened(r, "save_assistant")
    /\ conversations' =
          save_message(req[r].user_id, req[r].profession_name,
                       "assistant", req[r].assistant_message)
    /\ Set(r, [req[r] EXCEPT !.response = req[r].assistant_message,
                   !.action = "complete",
                   !.pc = route_next("complete"),
                   !.connection = "closed"])
    /\ UNCHANGED <<users, professions, outages>>

\* One POST /chat in which connecting and the rest of every database call
\* are steps of their own.
NextConnections ==
    \/ chat(1)
    \/ initialize_chat(1)
    \/ get_connection(1)
    \/ with_user_exists(1)
    \/ with_create_user(1)
    \/ handle_persona(1)
    \/ with_persona_exists_for_user(1)
    \/ with_get_persona_history(1)
    \/ with_get_profession_prompt(1)
    \/ generate_profession_prompt_with_llm(1)
    \/ with_save_profession_prompt(1)
    \/ execute_chat_invoke(1)
    \/ with_save_message_user(1)
    \/ with_save_message_assistant(1)
    \/ chat_return(1)

SpecConnections == InitWindow /\ [][NextConnections]_vars

\* ------------------------------------------ one identity, one thread
\* One request more than in Spec, by clients that use one identity and the
\* default label only, with a reachable database and oracles that answer:
\* POST /chat and DELETE /user for the key "u1".
PairRequests == 1..(MaxRequests + 1)

OneThreadOnly ==
    /\ outages = 0
    /\ \A r \in PairRequests :
          /\ req[r].user_id \in {"", "u1"}
          /\ req[r].status # 500
          /\ req[r].error = ""
          /\ req[r].current_persona \in {<<>>, GENERAL_EXPERT}
          /\ req[r].profession_name \in {<<>>, GENERAL_EXPERT}
          /\ req[r].profession_prompt \in {<<>>, <<"q">>}

InitPairs ==
    /\ req = [r \in PairRequests |-> IdleReq]
    /\ outages = 0
    /\ users = [u \in UserIds |-> 0]
    /\ conversations = <<>>
    /\ professions = {}

StepPairs(r) ==
    \/ chat(r)
    \/ initialize_chat(r)
    \/ validate_user(r)
    \/ validate_user_create(r)
    \/ handle_persona(r)
    \/ handle_persona_exists(r)
    \/ handle_persona_history(r)
    \/ execute_chat(r)
    \/ generate_profession_prompt_with_llm(r)
    \/ get_or_create_profession_prompt_save(r)
    \/ execute_chat_invoke(r)
    \/ execute_chat_save_user(r)
    \/ execute_chat_save_assistant(r)
    \/ chat_return(r)
    \/ delete_user(r)

NextPairs == \E r \in PairRequests : StepPairs(r) /\ OneThreadOnly'

SpecPairs == InitPairs /\ [][NextPairs]_vars

\* The same database with clients that only read and delete.
NextQueries ==
    \E r \in Requests :
        \/ delete_user(r)
        \/ get_chat_history(r)
        \/ get_chat_history_all(r)
        \/ get_chat_history_personas(r)
        \/ list_personas(r)
        \/ list_personas_return(r)

SpecQueries == InitStored /\ [][NextQueries]_vars

\* ================================================================ claims
Chat(r) == req[r].op = "chat"

\* No DELETE /user/u has succeeded.
NeverDeleted(u) ==
    \A d \in Requests :
        ~(req[d].op = "delete" /\ req[d].user_id = u /\ req[d].status = 200)

\* The Identity Resolver (validate_user) has run to its end for request r.
Resolved(r) ==
    Chat(r) /\ req[r].action \in {"handle_persona", "execute_chat", "complete"}

\* The Persona Router has fixed the thread key of request r.
Routed(r) == Chat(r) /\ Truthy(req[r].profession_name)

\* C1: the first POST /chat of an identity key creates its users row; a later
\* one with the same key raises nothing in the Identity Resolver and the key
\* still has exactly one row (no row is ever duplicated).  Stated for
\* requests that met a reachable database and keys nobody deleted.
C1_IdentityCreatedOnce ==
    /\ \A u \in UserIds : users[u] <= 1
    /\ \A r \in Requests :
          /\ (Resolved(r) /\ ~req[r].db_error /\ NeverDeleted(req[r].user_id))
                => users[req[r].user_id] = 1
          /\ (Chat(r) /\ req[r].status = 500 /\ req[r].action = "validate_user")
                => req[r].db_error

\* Two requests with the same key both answered 200, one row for the key.
C1_Witness ==
    /\ Chat(1) /\ Chat(2) /\ req[1].user_id = req[2].user_id
    /\ req[1].status = 200 /\ req[2].status = 200
    /\ ~req[1].db_error /\ ~req[2].db_error
    /\ users[req[1].user_id] = 1

\* C2: for every (identity, persona label) the synthesis oracle is invoked at
\* most once over the POST /chat requests routed to that pair (no identity
\* being deleted in between).
C2_SynthesizedAtMostOnce ==
    (\A d \in Requests : req[d].op # "delete") =>
        \A r1 \in Requests, r2 \in Requests :
            (/\ r1 # r2
             /\ Chat(r1) /\ Chat(r2)
             /\ req[r1].user_id = req[r2].user_id
             /\ req[r1].profession_name = req[r2].profession_name
             /\ req[r1].synthesized)
                => ~req[r2].synthesized

\* The label in the form the spec keys threads by: trimmed and case-folded.
CaseFold(c) == IF c = "I" THEN "i" ELSE c
Normalize(label) ==
    LET t == Strip(label) IN [k \in 1..Len(t) |-> CaseFold(t[k])]

\* C3: labels of one identity that differ only in letter case or in leading or
\* trailing whitespace resolve to the same thread key.
C3_SameThreadUpToCaseAndSpace ==
    \A r1 \in Requests, r2 \in Requests :
        (/\ Routed(r1) /\ Routed(r2)
         /\ req[r1].user_id = req[r2].user_id
         /\ Normalize(req[r1].profession_name) = Normalize(req[r2].profession_name))
            => req[r1].profession_name = req[r2].profession_name

\* C4: in handle_persona a non-empty candidate of the classifier becomes the
\* resolved label whatever should_switch says; an empty or whitespace-only
\* candidate leaves the current label.
C4_CandidateAdoptedRegardlessOfSwitch ==
    \A r \in Requests :
        (req[r].pc = "persona_exists" /\ req[r].detection.kind = "object") =>
            LET d == req[r].detection
                expected == IF Strip(d.candidate) # <<>>
                            THEN Strip(d.candidate)
                            ELSE d.current_profession
            IN  /\ req[r].current_persona = expected
                /\ req[r].profession_name = expected

\* A candidate adopted although should_switch is false.
C4_Witness ==
    \E r \in Requests :
        /\ req[r].pc = "persona_exists"
        /\ req[r].detection.kind = "object"
        /\ ~req[r].detection.should_switch
        /\ Strip(req[r].detection.candidate) # <<>>
        /\ req[r].current_persona # req[r].detection.current_profession
        /\ req[r].current_persona = Strip(req[r].detection.candidate)

\* The user turn of request r is in its resolved thread.
UserTurnStored(r) ==
    \E k \in 1..Len(conversations) :
        conversations[k] =
            [user_id |-> req[r].user_id, persona_name |-> req[r].profession_name,
             role |-> "user", message |-> req[r].message]

\* C5: when the generation oracle raises, the request still ends with a
\* non-empty response and the user's message is appended to the resolved
\* thread (database reachable throughout, identity not deleted).
C5_UserTurnKeptOnGenerationFailure ==
    \A r \in Requests :
        (/\ Chat(r) /\ req[r].pc \in {"complete", "done"}
         /\ req[r].response = Apology
         /\ ~req[r].db_error /\ NeverDeleted(req[r].user_id))
            => Truthy(req[r].response) /\ UserTurnStored(r)

\* C6: a classifier that raises or answers malformed output never makes the
\* Router fail: no request ends in handle_persona with the oracle's error.
C6_ClassifierFailureRecovered ==
    \A r \in Requests :
        ~(/\ Chat(r) /\ req[r].status = 500
          /\ req[r].action = "handle_persona"
          /\ req[r].error \in {"OracleError", "AttributeError"})

\* C7: POST /chat answers an error only when the database is unreachable.
C7_OnlyStorageFailsChat ==
    \A r \in Requests :
        (Chat(r) /\ req[r].status = 500) =>
            (req[r].db_error /\ req[r].error = "OperationalError")

\* C8: a stored instruction profile never changes its text (it can only
\* disappear, with its identity): the first write wins.
C8_ProfileTextImmutable ==
    [][\A old \in professions : \A new \in professions' :
          (old.user_id = new.user_id /\ old.profession_name = new.profession_name)
              => new.prompt = old.prompt]_vars

\* The prior turns of the list handed to the generation oracle.
PriorTurns(r) == SubSeq(req[r].messages, 2, Len(req[r].messages) - 1)

\* C9: the generation context holds at most 10 prior turns, and of a longer
\* history exactly the 10 most recent, in their order.
C9_ContextWindowBounded ==
    \A r \in Requests :
        req[r].messages # <<>> =>
            LET h == req[r].conversation_history
                prior == PriorTurns(r)
                n == IF Len(h) > 10 THEN 10 ELSE Len(h)
            IN  /\ Len(prior) <= 10
                /\ Len(prior) = n
                /\ \A k \in 1..n :
                      /\ prior[k].content = h[Len(h) - n + k].message
                      /\ prior[k].role = h[Len(h) - n + k].role

\* A history of more than 10 turns was cut to its 10 latest.
C9_Witness ==
    \E r \in Requests :
        /\ req[r].messages # <<>>
        /\ Len(req[r].conversation_history) > 10
        /\ Len(PriorTurns(r)) = 10
        /\ PriorTurns(r)[10].content =
              req[r].conversation_history[Len(req[r].conversation_history)].message

\* C10: every prior turn of the generation context is a turn of the thread of
\* the request's identity and resolved label (identity not deleted, so the
\* rows are still there to compare with).
C10_ContextFromOwnThreadOnly ==
    \A r \in Requests :
        (req[r].messages # <<>> /\ NeverDeleted(req[r].user_id)) =>
            \A k \in 1..Len(PriorTurns(r)) :
                \E j \in 1..Len(conversations) :
                    conversations[j] =
                        [user_id |-> req[r].user_id,
                         persona_name |-> req[r].profession_name,
                         role |-> PriorTurns(r)[k].role,
                         message |-> PriorTurns(r)[k].content]

\* A context with prior turns, built while the identity has another thread
\* and another identity has a thread of the same label.
C10_Witness ==
    \E r \in Requests :
        /\ Len(PriorTurns(r)) > 0
        /\ \E j \in 1..Len(conversations) :
              /\ conversations[j].user_id = req[r].user_id
              /\ conversations[j].persona_name # req[r].profession_name
        /\ \E j \in 1..Len(conversations) :
              /\ conversations[j].user_id # req[r].user_id
              /\ conversations[j].persona_name = req[r].profession_name


\* -------------------------------------------------------------------- C11
RowsOf(u) ==
    {k \in 1..Len(conversations) : conversations[k].user_id = u}

ProfilesOf(u) == {row \in professions : row.user_id = u}

Deleted(d, u) ==
    req[d].op = "delete" /\ req[d].user_id = u /\ req[d].status = 200

\* C11: once DELETE /user/k has succeeded, and for as long as no POST /chat
\* has created the users row of k again, no conversations row and no
\* professions row of k is left; a GET /chat_history/k sent after the delete,
\* with no POST /chat for k in the run, is answered 404 "User not found"
\* (500 when it finds the database unreachable).
C11_DeletedIdentityStaysGone ==
    \A d \in Requests, u \in UserIds :
        Deleted(d, u) =>
           /\ users[u] = 0 => RowsOf(u) = {} /\ ProfilesOf(u) = {}
           /\ (\A c \in Requests : ~(Chat(c) /\ req[c].user_id = u)) =>
                 /\ users[u] = 0
                 /\ \A h \in Requests :
                       (h > d /\ req[h].op = "history" /\ req[h].user_id = u
                          /\ req[h].pc = "done" /\ ~req[h].db_error)
                       => req[h].status = 404 /\ req[h].error = "User not found"

\* A stored identity with two threads and two profiles is deleted, and the
\* next request asks for its history.
C11_Witness ==
    /\ Deleted(1, "u1")
    /\ req[2].op = "history" /\ req[2].user_id = "u1"
    /\ req[2].pc = "done" /\ req[2].status = 404
    /\ RowsOf("u1") = {} /\ ProfilesOf("u1") = {}
    /\ RowsOf("u2") # {}

\* -------------------------------------------------------------------- C12
Query(r) == req[r].op \in {"history", "personas"}

\* Request r takes a step.
Moves(r) == req'[r] # req[r]

\* C12: no step of GET /chat_history or GET /personas changes the users,
\* conversations or professions table; when the key has no users row and the
\* database is reachable, the request ends at once with 404 "User not found".
C12_QueryOfUnknownIdentity ==
    [][\A r \in Requests :
          (Query(r)' /\ Moves(r)) =>
             /\ UNCHANGED <<users, conversations, professions>>
             /\ (req[r].pc = "idle" /\ users[req'[r].user_id] = 0
                   /\ ~req'[r].db_error)
                => /\ req'[r].pc = "done"
                   /\ req'[r].status = 404
                   /\ req'[r].error = "User not found"
                   /\ req'[r].history = <<>> /\ req'[r].personas = {}]_vars

\* GET /personas for a key that has no users row, on a database that holds
\* rows of another key.
C12_Witness ==
    /\ Deleted(1, "u2")
    /\ req[2].op = "personas" /\ req[2].user_id = "u2"
    /\ req[2].pc = "done" /\ req[2].status = 404
    /\ users["u2"] = 0 /\ RowsOf("u2") = {}
    /\ users["u1"] = 1 /\ RowsOf("u1") # {}

\* -------------------------------------------------------------------- C13
\* Request r has left initialize_chat and its state is still at hand.
Initialized(r) ==
    /\ Chat(r)
    /\ req[r].pc \notin {"idle", "initialize_chat"}
    /\ req[r].status # 500

\* C13: initialize_chat turns an empty current_persona into "general_expert"
\* and leaves any other label as it is; from then on the current_persona of
\* the request is never empty.
C13_PersonaDefaulted ==
    /\ [](\A r \in Requests : Initialized(r) => Truthy(req[r].current_persona))
    /\ [][\A r \in Requests :
             (req[r].pc = "initialize_chat" /\ Moves(r)) =>
                req'[r].current_persona =
                   IF req[r].current_persona = <<>> THEN GENERAL_EXPERT
                   ELSE req[r].current_persona]_vars

\* No request carries the label "general_expert", so a request that holds it
\* right after initialize_chat came with the empty label.
C13_Witness ==
    /\ GENERAL_EXPERT \notin PersonaNames
    /\ \E r \in Requests :
          /\ Chat(r) /\ req[r].pc = "validate_user"
          /\ req[r].current_persona = GENERAL_EXPERT

\* -------------------------------------------------------------------- C14
\* The rows of the thread of request r that hold the given turn.
TurnRows(r, role, message) ==
    {k \in 1..Len(conversations) :
        conversations[k] =
            [user_id |-> req[r].user_id, persona_name |-> req[r].profession_name,
             role |-> role, message |-> message]}

\* Request r ended with the generated reply and every call it made found
\* the database reachable.
Succeeded(r) ==
    /\ Chat(r) /\ req[r].pc = "done" /\ req[r].status = 200
    /\ req[r].response = ReplyTo(r)
    /\ ~req[r].db_error

\* C14: however the POST /chat requests of a run interleave, the thread of
\* every request that succeeded holds its user turn and its assistant turn,
\* each exactly once (identity not deleted).
C14_NoTurnLost ==
    \A r \in Requests :
        (Succeeded(r) /\ NeverDeleted(req[r].user_id)) =>
           /\ Cardinality(TurnRows(r, "user", req[r].message)) = 1
           /\ Cardinality(TurnRows(r, "assistant", req[r].response)) = 1

\* Two requests for one thread ran side by side: both user turns were
\* written before either assistant turn.
C14_Witness ==
    /\ Succeeded(1) /\ Succeeded(2)
    /\ req[1].user_id = req[2].user_id
    /\ req[1].profession_name = req[2].profession_name
    /\ Len(conversations) = 4
    /\ conversations[1].role = "user" /\ conversations[2].role = "user"

\* -------------------------------------------------------------------- C15
\* The node of the graph request r is in: 1 initialize_chat, 2 validate_user,
\* 3 handle_persona, 4 execute_chat, 5 END.
Stage(r) ==
    CASE req[r].pc = "initialize_chat" -> 1
      [] req[r].pc \in {"validate_user", "create_user"} -> 2
      [] req[r].pc \in {"handle_persona", "persona_exists",
                        "get_persona_history"} -> 3
      [] req[r].pc \in {"execute_chat", "generate_prompt", "save_prompt",
                        "invoke", "save_user", "save_assistant"} -> 4
      [] req[r].pc \in {"complete", "done"} -> 5
      [] OTHER -> 0

\* C15: a POST /chat passes initialize_chat, validate_user, handle_persona,
\* execute_chat in this order, moving from a node only to the next one (or
\* out of the graph when a call raises), so no node runs twice and none runs
\* after a later one; every request that entered the graph leaves it, and one
\* that is answered 200 has passed all four nodes.
C15_StagesInOrder ==
    /\ [][\A r \in Requests :
             Chat(r)' =>
                \/ Stage(r)' = Stage(r)
                \/ Stage(r)' = Stage(r) + 1
                \/ Stage(r)' = 5 /\ req'[r].status = 500]_vars
    /\ [](\A r \in Requests :
             (Chat(r) /\ req[r].status = 200) => req[r].action = "complete")
    /\ \A r \in Requests :
          (req[r].pc = "initialize_chat") ~> (req[r].pc = "done")

\* A request went through the four nodes and was answered.
C15_Witness ==
    \E r \in Requests :
        /\ Chat(r) /\ req[r].pc = "done" /\ req[r].status = 200
        /\ req[r].action = "complete"
        /\ req[r].response = ReplyTo(r)

\* -------------------------------------------------------------------- C16
\* Positions of a text in the conversations table and in a loaded history.
StoredAt(message) ==
    {k \in 1..Len(conversations) : conversations[k].message = message}

LoadedAt(q, message) ==
    {k \in 1..Len(req[q].conversation_history) :
        req[q].conversation_history[k].message = message}

\* C16: the user turn of a request is written before its assistant turn: in
\* the conversations table, and in every history a request loads, the user
\* turn stands before the assistant turn of the same request; when every
\* database call of the request succeeded (identity not deleted) the
\* assistant turn is never there without the user turn.
C16_UserTurnBeforeAssistantTurn ==
    \A r \in Requests :
        /\ \A i \in StoredAt(MessageOf(r)), j \in StoredAt(ReplyTo(r)) :
              /\ i < j
              /\ conversations[i].role = "user"
              /\ conversations[j].role = "assistant"
        /\ (~req[r].db_error /\ NeverDeleted(req[r].user_id)
               /\ StoredAt(ReplyTo(r)) # {})
           => StoredAt(MessageOf(r)) # {}
        /\ \A q \in Requests :
              \A i \in LoadedAt(q, MessageOf(r)), j \in LoadedAt(q, ReplyTo(r)) :
                 /\ i < j
                 /\ req[q].conversation_history[i].role = "user"
                 /\ req[q].conversation_history[j].role = "assistant"

\* The second request has loaded the two turns the first one wrote.
C16_Witness ==
    /\ Succeeded(1)
    /\ Chat(2) /\ req[2].pc = "execute_chat"
    /\ LoadedAt(2, MessageOf(1)) = {1}
    /\ LoadedAt(2, ReplyTo(1)) = {2}

\* -------------------------------------------------------------------- C17
\* The threads that exist: the keys that own a conversations row.
Threads ==
    {<<conversations[k].user_id, conversations[k].persona_name>> :
        k \in 1..Len(conversations)}

\* C17: no step of handle_persona changes the users, conversations or
\* professions table; when persona_exists_for_user finds no thread for the
\* resolved key the request goes on to execute_chat with an empty history;
\* a thread comes into existence only by a save_message of execute_chat, and
\* it is the thread of the request that wrote.
C17_RouterWritesNothing ==
    [][\A r \in Requests :
          (Chat(r) /\ Moves(r)) =>
             /\ Stage(r) = 3 => UNCHANGED <<users, conversations, professions>>
             /\ (/\ req[r].pc = "persona_exists"
                 /\ ~persona_exists_for_user(req[r].user_id, req[r].profession_name)
                 /\ req'[r].status # 500)
                => /\ req'[r].conversation_history = <<>>
                   /\ req'[r].pc = "execute_chat"
             /\ Threads' \ Threads # {} =>
                   /\ req[r].pc \in {"save_user", "save_assistant"}
                   /\ Threads' \ Threads =
                         {<<req[r].user_id, req[r].profession_name>>}]_vars

\* The Router has finished for a key without a thread: the history is empty
\* and there is still no thread.
C17_Witness ==
    \E r \in Requests :
        /\ Chat(r) /\ req[r].pc = "execute_chat"
        /\ req[r].conversation_history = <<>>
        /\ <<req[r].user_id, req[r].profession_name>> \notin Threads
        /\ Threads # {}

\* -------------------------------------------------------------------- C18
\* The leading directive of the list request r handed to the generation
\* oracle.
Directive(r) == req[r].messages[1].content

\* C18: within one identity, all requests routed to the same label hand the
\* generation oracle the same instruction text as leading directive (no
\* identity being deleted in the run, database reachable throughout).
C18_SameDirectivePerLabel ==
    (/\ \A d \in Requests : req[d].op # "delete"
     /\ outages = 0) =>
        \A r1 \in Requests, r2 \in Requests :
            (/\ Chat(r1) /\ Chat(r2)
             /\ req[r1].user_id = req[r2].user_id
             /\ req[r1].profession_name = req[r2].profession_name
             /\ req[r1].messages # <<>> /\ req[r2].messages # <<>>)
                => Directive(r1) = Directive(r2)

\* -------------------------------------------------------------------- C19
\* The oracles request r has called: handle_persona calls the classifier
\* first of all, generate_profession_prompt_with_llm the synthesis oracle,
\* and the message list is built for the generation oracle.
ClassifierInvoked(r) ==
    \/ req[r].action \in {"execute_chat", "complete"}
    \/ req[r].action = "handle_persona" /\ req[r].pc # "handle_persona"

SynthesisInvoked(r) == req[r].synthesized

GenerationInvoked(r) == req[r].messages # <<>>

\* POST /chat of request r was answered 500 for an unreachable database.
StorageFailed(r) ==
    /\ Chat(r) /\ req[r].status = 500
    /\ req[r].error = "OperationalError"

\* C19: a POST /chat that fails because the database is unreachable has
\* called no oracle and produced no response text before it failed.
C19_StorageFailureBeforeAnyOracle ==
    \A r \in Requests :
        StorageFailed(r) =>
           /\ ~ClassifierInvoked(r)
           /\ ~SynthesisInvoked(r)
           /\ ~GenerationInvoked(r)
           /\ req[r].response = <<>>

\* -------------------------------------------------------------------- C20
\* The generation oracle has returned its text to request r.
GenerationReturned(r) ==
    /\ Chat(r)
    /\ \/ req[r].assistant_message = ReplyTo(r)
       \/ req[r].response = ReplyTo(r)

\* C20: once the generation oracle has returned, the request does not fail,
\* whatever becomes of the two save_message calls: it is not answered 500,
\* and at the end of execute_chat and in the answer the response is the
\* generated text.
C20_ResponseSurvivesSaveFailure ==
    \A r \in Requests :
        GenerationReturned(r) =>
           /\ req[r].status # 500
           /\ req[r].pc \in {"complete", "done"} =>
                 /\ req[r].response = ReplyTo(r)
                 /\ req[r].error = ""

\* The database was unreachable for the user turn only: the request is
\* answered 200 with the generated text, and the thread holds the assistant
\* turn without the user turn.
C20_Witness ==
    \E r \in Requests :
        /\ Chat(r) /\ req[r].pc = "done" /\ req[r].status = 200
        /\ req[r].response = ReplyTo(r)
        /\ req[r].db_error
        /\ StoredAt(MessageOf(r)) = {}
        /\ StoredAt(ReplyTo(r)) # {}

\* -------------------------------------------------------------------- C21
\* What the synthesis oracle can leave after strip() when it is not empty.
SynthTexts == {Strip(content) : content \in SynthContents} \ {<<>>}

\* C21: the text generate_profession_prompt_with_llm returns is the stripped
\* output of the oracle or, when that is empty, the fallback template with
\* the profession name in it; no stored profile and no leading directive
\* handed to the generation oracle is empty.
C21_FallbackInstructionText ==
    /\ \A row \in professions : Truthy(row.prompt)
    /\ \A r \in Requests :
          /\ req[r].pc = "save_prompt" =>
                /\ Truthy(req[r].profession_prompt)
                /\ \/ req[r].profession_prompt \in SynthTexts
                   \/ req[r].profession_prompt =
                         FallbackPrompt(req[r].profession_name)
          /\ GenerationInvoked(r) => Truthy(Directive(r))

\* The oracle answered nothing but white space: the fallback template of the
\* request's label is stored and leads the message list.
C21_Witness ==
    \E r \in Requests :
        /\ Chat(r) /\ req[r].synthesized /\ GenerationInvoked(r)
        /\ FallbackPrompt(req[r].profession_name) \notin SynthTexts
        /\ Directive(r) = FallbackPrompt(req[r].profession_name)
        /\ [user_id |-> req[r].user_id,
            profession_name |-> req[r].profession_name,
            prompt |-> FallbackPrompt(req[r].profession_name)] \in professions

\* -------------------------------------------------------------------- C22
\* C22: the list handed to the generation oracle starts with the system
\* message holding the instruction text, ends with the new user message, and
\* holds in between the last min(ContextCap, n) turns of the loaded history,
\* in their order and with their roles.
C22_MessageListShape ==
    \A r \in Requests :
        (GenerationInvoked(r) /\ req[r].pc # "done") =>
            LET messages == req[r].messages
                history == req[r].conversation_history
                n == Len(history)
                k == IF n < ContextCap THEN n ELSE ContextCap
            IN  /\ Len(messages) = k + 2
                /\ messages[1] =
                      [role |-> "system", content |-> req[r].profession_prompt]
                /\ messages[k + 2] =
                      [role |-> "user", content |-> req[r].message]
                /\ \A i \in 1..k :
                      messages[1 + i] =
                          [role |-> history[n - k + i].role,
                           content |-> history[n - k + i].message]

\* A history longer than the cap: the list starts with the directive, goes
\* on with an assistant turn and a user turn of the thread, and ends with the
\* new message.
C22_Witness ==
    \E r \in Requests :
        /\ GenerationInvoked(r) /\ req[r].pc = "save_user"
        /\ Len(req[r].conversation_history) > ContextCap
        /\ req[r].messages[1].role = "system"
        /\ req[r].messages[2].role # req[r].messages[3].role
        /\ req[r].messages[Len(req[r].messages)].content = MessageOf(r)

\* -------------------------------------------------------------------- C23
\* DELETE /user/u succeeds in this step.
Deletes(u) ==
    \E d \in Requests :
        /\ req[d].pc = "idle"
        /\ req'[d].op = "delete" /\ req'[d].user_id = u /\ req'[d].status = 200

\* C23: every step that is not a successful DELETE /user leaves all rows of
\* conversations as they are and in their order, and at most appends rows;
\* a successful DELETE /user/u removes the rows of u and leaves the others
\* as they are and in their order.
C23_TurnsAppendOnly ==
    [][IF \E u \in UserIds : Deletes(u)
       THEN \A u \in UserIds :
               Deletes(u) =>
                  conversations' =
                     SelectSeq(conversations, LAMBDA row : row.user_id # u)
       ELSE /\ Len(conversations') >= Len(conversations)
            /\ SubSeq(conversations', 1, Len(conversations)) = conversations]_vars

\* A request has appended its two turns behind the rows that were stored.
C23_Witness ==
    \E n \in 1..MaxTurns :
        /\ Succeeded(1)
        /\ Len(conversations) = n + 6
        /\ SubSeq(conversations, 1, n + 4) = StoredConversations(n)
        /\ conversations[n + 5].message = MessageOf(1)
        /\ conversations[n + 6].message = ReplyTo(1)

\* -------------------------------------------------------------------- C24
\* C24: no key ever has two users rows; the create_user step of a request
\* never ends the request, whether or not the row is there by then: the
\* request goes on to handle_persona, a row that exists is left as it is,
\* and with a reachable database the key has exactly one row afterwards.
C24_DuplicateCreateTolerated ==
    /\ [](\A u \in UserIds : users[u] \in {0, 1})
    /\ [][\A r \in Requests :
             (req[r].pc = "create_user" /\ Moves(r)) =>
                /\ req'[r].status = 0
                /\ req'[r].pc = "handle_persona"
                /\ user_exists(req[r].user_id) => users' = users
                /\ ~req'[r].db_error => users'[req[r].user_id] = 1]_vars

\* Request 1 has inserted the row and gone on; request 2, which saw no row
\* either, is about to insert it again.
C24_Witness ==
    /\ Chat(1) /\ Chat(2) /\ req[1].user_id = req[2].user_id
    /\ req[2].pc = "create_user"
    /\ Stage(1) > 2 /\ req[1].status # 500
    /\ users[req[1].user_id] = 1
    /\ \A d \in Requests : req[d].op # "delete"

\* -------------------------------------------------------------------- C25
\* C25: a POST /chat that is about to call an oracle, or has the call in
\* flight, holds no database connection: a connection is open only inside a
\* database call, and every call has closed its connection when the next
\* call, of the database or of an oracle, starts.
C25_NoConnectionAcrossOracleCall ==
    \A r \in Requests :
        /\ req[r].pc \in OracleCalls => req[r].connection = "closed"
        /\ req[r].connection = "open" => req[r].pc \in DatabaseCalls
        /\ req[r].pc \in {"complete", "done"} => req[r].connection = "closed"

\* Between the synthesis and the generation oracle the profile was written
\* over a connection that is closed again.
C25_Witness ==
    \E r \in Requests :
        /\ req[r].pc = "invoke" /\ req[r].synthesized
        /\ ~req[r].db_error
        /\ req[r].connection = "closed"
        /\ ProfilesOf(req[r].user_id) # {}

\* -------------------------------------------------------------------- C26
\* C26: the persona_name a POST /chat answers with (current_persona at the
\* end) is the label its execute_chat worked under: the label of the rows
\* holding its two turns, and the label of the profile it looked up or
\* stored (the stored row is looked for when the request synthesized it, the
\* database was reachable and the identity was not deleted).
C26_ReturnedLabelIsThreadLabel ==
    \A r \in Requests :
        (Chat(r) /\ req[r].action \in {"execute_chat", "complete"}
           /\ req[r].status # 500) =>
           /\ req[r].profession_name = req[r].current_persona
           /\ \A k \in StoredAt(MessageOf(r)) \cup StoredAt(ReplyTo(r)) :
                 /\ conversations[k].user_id = req[r].user_id
                 /\ conversations[k].persona_name = req[r].current_persona
           /\ (req[r].synthesized /\ ~req[r].db_error
                 /\ req[r].pc \notin {"generate_prompt", "save_prompt"}
                 /\ NeverDeleted(req[r].user_id))
              => \E row \in professions :
                    /\ row.user_id = req[r].user_id
                    /\ row.profession_name = req[r].current_persona

\* A request answered with the label "i" that wrote its turns and its
\* synthesized profile under that label.
C26_Witness ==
    \E r \in Requests :
        /\ Succeeded(r) /\ req[r].synthesized
        /\ req[r].current_persona = <<"i">>
        /\ TurnRows(r, "user", req[r].message) # {}
        /\ TurnRows(r, "assistant", req[r].response) # {}
        /\ \E row \in professions :
              /\ row.user_id = req[r].user_id
              /\ row.profession_name = <<"i">>

\* -------------------------------------------------------------------- C27
\* C27: the personas list of an answered GET /chat_history is the key set of
\* the history mapping of the same answer, whatever POST /chat and DELETE
\* requests run alongside.
C27_PersonasMatchHistoryKeys ==
    \A h \in Requests :
        (req[h].op = "history" /\ req[h].pc = "done" /\ req[h].status = 200)
            => req[h].personas = DOMAIN req[h].history

\* -------------------------------------------------------------------- C28
\* C28: in every state every conversations row and every professions row
\* belongs to a key that has a users row.
C28_NoOrphanRows ==
    /\ \A k \in 1..Len(conversations) : users[conversations[k].user_id] = 1
    /\ \A row \in professions : users[row.user_id] = 1

\* DELETE /user/u1 has succeeded while a POST /chat of u1 that a reachable
\* database served so far is about to write its assistant turn.
C28_Witness ==
    /\ Chat(1) /\ req[1].user_id = "u1" /\ req[1].pc = "save_assistant"
    /\ ~req[1].db_error
    /\ Deleted(2, "u1") /\ users["u1"] = 0
    /\ RowsOf("u1") = {} /\ ProfilesOf("u1") = {}
    /\ RowsOf("u2") # {}

\* -------------------------------------------------------------------- C29
\* The rows of a thread that hold a turn of the given role.
RoleRows(u, p, role) ==
    {k \in 1..Len(conversations) :
        /\ conversations[k].user_id = u
        /\ conversations[k].persona_name = p
        /\ conversations[k].role = role}

\* C29: when no POST /chat is in flight and no database call has found the
\* database unreachable, every thread holds as many user turns as assistant
\* turns.
C29_TurnsInPairs ==
    (/\ outages = 0
     /\ \A r \in DOMAIN req : req[r].pc \in {"idle", "done"}) =>
        \A t \in Threads :
            Cardinality(RoleRows(t[1], t[2], "user"))
                = Cardinality(RoleRows(t[1], t[2], "assistant"))

\* -------------------------------------------------------------------- C30
\* What the database holds for identity u.
Owned(u) ==
    [record |-> users[u],
     turns |-> SelectSeq(conversations, LAMBDA row : row.user_id = u),
     profiles |-> ProfilesOf(u)]

\* C30: a step of a POST /chat, GET /chat_history, GET /personas or
\* DELETE /user for identity A leaves the users row, the conversations rows
\* and the professions rows of every other identity as they are.
C30_OtherIdentitiesUntouched ==
    [][\A r \in Requests :
          Moves(r) =>
             \A u \in UserIds \ {req'[r].user_id} : Owned(u)' = Owned(u)]_vars

\* A POST /chat of u2 has synthesized and stored a profile and written its
\* turns; what was stored for u1 is all there.
C30_Witness ==
    \E n \in 1..MaxTurns :
        /\ Succeeded(1) /\ req[1].user_id = "u2" /\ req[1].synthesized
        /\ Owned("u1") =
              [record |-> 1,
               turns |-> SelectSeq(StoredConversations(n),
                                   LAMBDA row : row.user_id = "u1"),
               profiles |-> {StoredProfile("u1", <<"i">>),
                             StoredProfile("u1", GENERAL_EXPERT)}]

=======================================================================
